---- MODULE Spec2Model ----
(***************************************************************************)
(* A model of the two vLLM demo clients: vllm_demo.py (the command-line    *)
(* menu) and vllm_web_demo.py (the Flask chat front end).                   *)
(*                                                                         *)
(* Python strings that the code trims, lower-cases or tests for emptiness  *)
(* are sequences of one-character strings, so that str.strip and str.lower *)
(* are computed. A base URL is the sequence of the pieces its f-string     *)
(* joins. Python's None is the one-element sequence <<"None">>, which no   *)
(* string of characters equals.                                            *)
(***************************************************************************)
EXTENDS Integers, Sequences, FiniteSets, TLC

None == <<"None">>

(***************************************************************************)
(* Bounds of the model.                                                    *)
(***************************************************************************)
\* successful exchanges the web sessions may store, all together
MaxTurns == 2
\* lines one run of the interactive loop may read
MaxInputs == 3

(***************************************************************************)
(* str.strip, str.lower, truthiness.                                       *)
(***************************************************************************)
Whitespace == {" ", "\n"}

RECURSIVE lstrip(_)
lstrip(s) == IF s # <<>> /\ Head(s) \in Whitespace THEN lstrip(Tail(s)) ELSE s

RECURSIVE rstrip(_)
rstrip(s) ==
    IF s # <<>> /\ s[Len(s)] \in Whitespace
    THEN rstrip(SubSeq(s, 1, Len(s) - 1))
    ELSE s

strip(s) == rstrip(lstrip(s))

LowerChar(c) ==
    CASE c = "Q" -> "q" [] c = "U" -> "u" [] c = "I" -> "i" [] c = "T" -> "t"
      [] c = "E" -> "e" [] c = "X" -> "x" [] c = "C" -> "c" [] c = "L" -> "l"
      [] c = "A" -> "a" [] c = "R" -> "r" [] c = "H" -> "h"
      [] OTHER -> c

lower(s) == [i \in 1..Len(s) |-> LowerChar(s[i])]

\* bool(x) of a str or None
Truthy(x) == x # None /\ x # <<>>

(***************************************************************************)
(* Endpoint resolution.                                                    *)
(***************************************************************************)
LOCALHOST_URL == <<"http://", "localhost", ":8080">>

\* f"http://{ip}:8080"
UrlOf(ip) == <<"http://">> \o ip \o <<":8080">>

\* what subprocess.run(["kubectl", ...], timeout=10) can do: complete with a
\* return code and captured stdout, or raise
KubectlStdouts == { <<>>, <<"\n">>, <<"1", "\n">>, <<" ", "1">> }
KubectlOutcomes ==
    [exc : {"none"}, returncode : {0, 1}, stdout : KubectlStdouts]
      \cup [exc : {"TimeoutExpired", "FileNotFoundError"}, returncode : {0}, stdout : {<<>>}]

\* values of os.environ.get("VLLM_IP")
EnvValues == { None, <<>>, <<"7">> }

\* both exceptions subprocess.run raises here derive from Exception
IsException(e) == e \in {"TimeoutExpired", "FileNotFoundError", "EOFError",
                         "KeyError", "IndexError", "ValueError"}

\* lines 86-102 of the web module / 35-45 of the CLI module: the discovery step
DiscoveredUrl(k) ==
    IF k.exc # "none" THEN LOCALHOST_URL
    ELSE IF k.returncode = 0 /\ strip(k.stdout) # <<>>
         THEN UrlOf(strip(k.stdout))
         ELSE LOCALHOST_URL

get_vllm_base_url_discovery_first(env, k) ==
    IF k.exc = "none" /\ k.returncode = 0 /\ strip(k.stdout) # <<>>
    THEN [url |-> UrlOf(strip(k.stdout)), runs |-> 1, exc |-> "none"]
    ELSE IF Truthy(env)
         THEN [url |-> UrlOf(env), runs |-> 1, exc |-> "none"]
         ELSE [url |-> LOCALHOST_URL, runs |-> 1, exc |-> "none"]

\* get_vllm_base_url(): the URL, how often kubectl was run, the exception raised
get_vllm_base_url(env, k) ==
    IF Truthy(env)
    THEN [url |-> UrlOf(env), runs |-> 0, exc |-> "none"]
    ELSE IF k.exc # "none" /\ ~IsException(k.exc)
         THEN [url |-> None, runs |-> 1, exc |-> k.exc]
         ELSE [url |-> DiscoveredUrl(k), runs |-> 1, exc |-> "none"]

\* VLLMClient.__init__(base_url): the bare except catches whatever is raised
VLLMClient_init(base_url, env, k) ==
    IF base_url # None
    THEN [url |-> base_url, runs |-> 0, exc |-> "none"]
    ELSE IF Truthy(env)
         THEN [url |-> UrlOf(env), runs |-> 0, exc |-> "none"]
         ELSE [url |-> DiscoveredUrl(k), runs |-> 1, exc |-> "none"]

\* VLLMWebClient.__init__(base_url): base_url or VLLM_BASE_URL
VLLMWebClient_init(base_url, global_url) ==
    IF Truthy(base_url) THEN base_url ELSE global_url

(***************************************************************************)
(* The downstream HTTP service as the requests library shows it.           *)
(***************************************************************************)
HTTP_OK == 200

\* every exception requests itself raises derives from RequestException
RequestExceptions ==
    {"ConnectionError", "Timeout", "InvalidURL", "HTTPError", "RequestsJSONDecodeError"}

IsRequestException(e) == e \in RequestExceptions

\* what response.json() raises on a body that is not JSON: a RequestException
\* in requests >= 2.27, a plain ValueError before; the version is not pinned
JsonDecodeErrors == {"RequestsJSONDecodeError", "ValueError"}

\* refused connection and failed DNS lookup are both ConnectionError
TransportErrors == {"ConnectionError", "Timeout", "InvalidURL"}

ReplyContents == { <<"x">> }

Failed(e) == [exc |-> e, status |-> 0, body |-> "none", content |-> <<>>]
Response(st, b, c) == [exc |-> "none", status |-> st, body |-> b, content |-> c]

\* a KeyboardInterrupt delivered while the call blocks (CLI only)
Interrupted == Failed("KeyboardInterrupt")

HealthOutcomes ==
    {Failed(e) : e \in TransportErrors}
      \cup {Response(st, "ok", <<>>) : st \in {200, 204, 404, 500}}

ModelsOutcomes ==
    {Failed(e) : e \in TransportErrors}
      \cup {Response(st, "ok", <<>>) : st \in {404, 500}}
      \cup {Response(200, b, <<>>) : b \in {"not_json", "no_data", "ok"}}

ChatOutcomes ==
    {Failed(e) : e \in TransportErrors}
      \cup {Response(st, "ok", <<>>) : st \in {404, 500}}
      \cup {Response(204, "not_json", <<>>)}
      \cup {Response(200, b, <<>>) :
              b \in {"not_json", "no_choices", "empty_choices", "no_message", "no_content"}}
      \cup {Response(200, "ok", c) : c \in ReplyContents}

CompletionOutcomes ==
    {Failed(e) : e \in TransportErrors}
      \cup {Response(st, "ok", <<>>) : st \in {404, 500}}
      \cup {Response(200, b, <<>>) :
              b \in {"not_json", "no_choices", "empty_choices", "no_text"}}
      \cup {Response(200, "ok", c) : c \in ReplyContents}

\* response.raise_for_status()
raise_for_status(o) == IF o.status >= 400 /\ o.status < 600 THEN "HTTPError" ELSE "none"

\* the first exception raised inside the try block of chat_completion /
\* completion: the request, raise_for_status, response.json(), then
\* result["choices"][0]["message"]["content"] (or [...]["text"])
CompletionTryExc(o, je) ==
    IF o.exc # "none" THEN o.exc
    ELSE IF raise_for_status(o) # "none" THEN raise_for_status(o)
    ELSE CASE o.body = "not_json" -> je
           [] o.body = "no_choices" -> "KeyError"
           [] o.body = "empty_choices" -> "IndexError"
           [] o.body \in {"no_message", "no_content", "no_text"} -> "KeyError"
           [] OTHER -> "none"

\* the first exception raised inside the try block of get_models
ModelsTryExc(o, je) ==
    IF o.exc # "none" THEN o.exc
    ELSE IF raise_for_status(o) # "none" THEN raise_for_status(o)
    ELSE CASE o.body = "not_json" -> je
           [] o.body = "no_data" -> "KeyError"
           [] OTHER -> "none"

health_check_any_response(o) ==
    IF o.exc = "none" THEN [ret |-> TRUE, exc |-> "none"]
    ELSE [ret |-> FALSE, exc |-> "none"]

\* health_check of both clients: [ret, exc] is the value returned and the
\* exception that leaves the method ("none" when it returns)
health_check(o) ==
    IF o.exc = "none" THEN [ret |-> (o.status = HTTP_OK), exc |-> "none"]
    ELSE IF IsRequestException(o.exc) THEN [ret |-> FALSE, exc |-> "none"]
    ELSE [ret |-> FALSE, exc |-> o.exc]

\* VLLMClient.get_models: the list, [] on a RequestException
cli_get_models(o, je) ==
    LET e == ModelsTryExc(o, je) IN
    IF e = "none" THEN [ret |-> <<"data">>, exc |-> "none"]
    ELSE IF IsRequestException(e) THEN [ret |-> <<>>, exc |-> "none"]
    ELSE [ret |-> None, exc |-> e]

\* VLLMWebClient.get_models: the list, {"error": str(e)} on a RequestException
web_get_models(o, je) ==
    LET e == ModelsTryExc(o, je) IN
    IF e = "none" THEN [ret |-> <<"data">>, exc |-> "none"]
    ELSE IF IsRequestException(e) THEN [ret |-> <<"error", e>>, exc |-> "none"]
    ELSE [ret |-> None, exc |-> e]

\* VLLMClient.chat_completion and VLLMClient.completion: the content, None on a
\* RequestException
cli_completion(o, je) ==
    LET e == CompletionTryExc(o, je) IN
    IF e = "none" THEN [ret |-> o.content, exc |-> "none"]
    ELSE IF IsRequestException(e) THEN [ret |-> None, exc |-> "none"]
    ELSE [ret |-> None, exc |-> e]

\* VLLMWebClient.chat_completion
web_chat_completion(o, je) ==
    LET e == CompletionTryExc(o, je) IN
    IF e = "none"
    THEN [ret |-> [success |-> TRUE, content |-> o.content, error |-> ""], exc |-> "none"]
    ELSE IF IsRequestException(e)
         THEN [ret |-> [success |-> FALSE, content |-> <<>>, error |-> e], exc |-> "none"]
         ELSE [ret |-> [success |-> FALSE, content |-> <<>>, error |-> ""], exc |-> e]

(***************************************************************************)
(* State.                                                                  *)
(***************************************************************************)
VARIABLES
    prog,           \* which program runs: "web", "cli", or "caller" (code that
                    \* imports the modules and uses the clients itself)
    pc,             \* where that program is
    urls,           \* the base URLs the downstream requests of this run went to
    lastOp,         \* caller: its last call if that was a client operation: the
                    \* downstream outcome, the value returned, the exception raised
    res,            \* caller: its last call if that was an endpoint resolution:
                    \* the inputs, the URL, how often kubectl ran
    VLLM_BASE_URL,  \* web: the module global
    vllm_client,    \* web: vllm_client.base_url
    session,        \* web: the Flask session of each browser
    last,           \* web: the last request handled and its response
    okTurns,        \* web: per session, the (message, reply) pairs of the chats
                    \* that succeeded since its transcript was last emptied
    client,         \* cli: client.base_url of the running menu action
    messages,       \* cli: the local transcript of interactive_chat
    inputs,         \* cli: the lines the interactive loop has read
    calls,          \* cli: completion calls the interactive loop has issued
    perf_i,         \* cli: the index of the next prompt of performance_test
    cli_last        \* cli: the last loop iteration: which loop, what was read,
                    \* the exception that reached the loop's handlers, whether
                    \* a farewell was printed and whether the loop ended

vars == <<prog, pc, urls, lastOp, res, VLLM_BASE_URL, vllm_client,
          session, last, okTurns, client, messages, inputs, calls,
          perf_i, cli_last>>

callerVars == <<lastOp, res>>
webVars == <<VLLM_BASE_URL, vllm_client, session, last, okTurns>>
cliVars == <<client, messages, inputs, calls, perf_i, cli_last>>

Sessions == {"s1", "s2"}

NoOp == [client |-> "none", op |-> "none", o |-> Failed("none"), je |-> "none",
         ret |-> None, exc |-> "none"]

NoRes == [fn |-> "none", override |-> None, env |-> None,
          k |-> [exc |-> "none", returncode |-> 0, stdout |-> <<>>],
          out |-> [url |-> None, runs |-> 0, exc |-> "none"]]

NoBody == [has_message |-> FALSE, message |-> <<>>]

NoRequest == [route |-> "none", sid |-> "none", body |-> NoBody,
              status |-> 0, error |-> FALSE, called |-> FALSE,
              sent |-> <<>>, before |-> <<>>]

NoIteration == [loop |-> "none", kind |-> "none", line |-> <<>>, exc |-> "none",
                farewell |-> FALSE, ended |-> FALSE, called |-> FALSE, sent |-> <<>>]

\* a cookie that holds neither session_id nor chat_history
EmptySession == [has_id |-> FALSE, has_history |-> FALSE, chat_history |-> <<>>]

Init ==
    /\ prog \in {"web", "cli", "caller"}
    /\ pc = (IF prog = "web" THEN "import" ELSE IF prog = "cli" THEN "menu" ELSE "caller")
    /\ urls = {}
    /\ lastOp = NoOp
    /\ res = NoRes
    /\ VLLM_BASE_URL = None
    /\ vllm_client = None
    /\ session = [s \in Sessions |-> EmptySession]
    /\ last = NoRequest
    /\ okTurns = [s \in Sessions |-> <<>>]
    /\ client = None
    /\ messages = <<>>
    /\ inputs = <<>>
    /\ calls = 0
    /\ perf_i = 0
    /\ cli_last = NoIteration

(***************************************************************************)
(* A caller that resolves endpoints and uses the clients itself. Each      *)
(* resolution reads the environment variable and runs kubectl anew.        *)
(***************************************************************************)
Overrides == { None, <<>>, <<"http://", "o", ":9000">> }

CallVLLMClient(base_url, env, k) ==
    /\ pc = "caller"
    /\ res' = [fn |-> "VLLMClient", override |-> base_url, env |-> env, k |-> k,
               out |-> VLLMClient_init(base_url, env, k)]
    /\ lastOp' = NoOp
    /\ UNCHANGED <<prog, pc, urls, webVars, cliVars>>

CallGetVllmBaseUrl(env, k) ==
    /\ pc = "caller"
    /\ res' = [fn |-> "get_vllm_base_url", override |-> None, env |-> env, k |-> k,
               out |-> get_vllm_base_url(env, k)]
    /\ lastOp' = NoOp
    /\ UNCHANGED <<prog, pc, urls, webVars, cliVars>>

Called(cl, op, o, je, r) ==
    /\ pc = "caller"
    /\ lastOp' = [client |-> cl, op |-> op, o |-> o, je |-> je, ret |-> r.ret, exc |-> r.exc]
    /\ res' = NoRes
    /\ UNCHANGED <<prog, pc, urls, webVars, cliVars>>

CallHealthCheck(cl, o) == Called(cl, "health_check", o, "none", health_check(o))

CallChatCompletion(cl, o, je) ==
    Called(cl, "chat_completion", o, je,
           IF cl = "VLLMClient" THEN cli_completion(o, je) ELSE web_chat_completion(o, je))

CallCompletion(o, je) == Called("VLLMClient", "completion", o, je, cli_completion(o, je))

CallGetModels(cl, o, je) ==
    Called(cl, "get_models", o, je,
           IF cl = "VLLMClient" THEN cli_get_models(o, je) ELSE web_get_models(o, je))

Clients == {"VLLMClient", "VLLMWebClient"}

CallerNext ==
    \/ \E b \in Overrides, env \in EnvValues, k \in KubectlOutcomes : CallVLLMClient(b, env, k)
    \/ \E env \in EnvValues, k \in KubectlOutcomes : CallGetVllmBaseUrl(env, k)
    \/ \E cl \in Clients, o \in HealthOutcomes : CallHealthCheck(cl, o)
    \/ \E cl \in Clients, o \in ChatOutcomes, je \in JsonDecodeErrors : CallChatCompletion(cl, o, je)
    \/ \E o \in CompletionOutcomes, je \in JsonDecodeErrors : CallCompletion(o, je)
    \/ \E cl \in Clients, o \in ModelsOutcomes, je \in JsonDecodeErrors : CallGetModels(cl, o, je)

(***************************************************************************)
(* The web front end.                                                      *)
(***************************************************************************)
\* module level: VLLM_BASE_URL = get_vllm_base_url(); vllm_client = VLLMWebClient()
WebImport(env, k) ==
    /\ pc = "import"
    /\ LET r == get_vllm_base_url(env, k) IN
       IF r.exc # "none"
       THEN /\ pc' = "crashed"
            /\ UNCHANGED <<VLLM_BASE_URL, vllm_client>>
       ELSE /\ pc' = "serving"
            /\ VLLM_BASE_URL' = r.url
            /\ vllm_client' = VLLMWebClient_init(None, r.url)
    /\ UNCHANGED <<prog, urls, callerVars, session, last, okTurns, cliVars>>

\* session.get('chat_history', [])
SessionGet(sess) == IF sess.has_history THEN sess.chat_history ELSE <<>>

Message(role, content) == [role |-> role, content |-> content]

Responded(route, s, body, status, error, called, sent) ==
    last' = [route |-> route, sid |-> s, body |-> body, status |-> status,
             error |-> error, called |-> called, sent |-> sent,
             before |-> SessionGet(session[s])]

\* the exchanges stored in all sessions together
StoredTurns == (Len(session["s1"].chat_history) + Len(session["s2"].chat_history)) \div 2

\* GET /: if 'session_id' not in session: set session_id and chat_history = []
index_session(sess) ==
    IF ~sess.has_id
    THEN [has_id |-> TRUE, has_history |-> TRUE, chat_history |-> <<>>]
    ELSE sess

index(s) ==
    /\ pc = "serving"
    /\ session' = [session EXCEPT ![s] = index_session(session[s])]
    /\ Responded("index", s, NoBody, 200, FALSE, FALSE, <<>>)
    /\ okTurns' = [okTurns EXCEPT ![s] = IF session[s].has_id THEN @ ELSE <<>>]
    /\ UNCHANGED <<prog, pc, urls, callerVars, VLLM_BASE_URL, vllm_client, cliVars>>

HealthResults == {health_check(o) : o \in HealthOutcomes}

\* GET /api/health
api_health(s, r) ==
    /\ pc = "serving"
    /\ Responded("health", s, NoBody, IF r.exc = "none" THEN 200 ELSE 500, FALSE, TRUE, <<>>)
    /\ urls' = urls \cup {vllm_client}
    /\ UNCHANGED <<prog, pc, callerVars, VLLM_BASE_URL, vllm_client, session, okTurns, cliVars>>

WebModelsResults ==
    {web_get_models(o, je) : o \in ModelsOutcomes, je \in JsonDecodeErrors}

\* GET /api/models
api_models(s, r) ==
    /\ pc = "serving"
    /\ Responded("models", s, NoBody, IF r.exc = "none" THEN 200 ELSE 500, FALSE, TRUE, <<>>)
    /\ urls' = urls \cup {vllm_client}
    /\ UNCHANGED <<prog, pc, callerVars, VLLM_BASE_URL, vllm_client, session, okTurns, cliVars>>

\* bodies of POST /api/chat: a JSON object with or without "message"
ChatBodies ==
    {NoBody} \cup
    [has_message : {TRUE}, message : { <<>>, <<" ">>, <<"a">>, <<" ", "b", "\n">> }]

chat_message_unstripped(body) == IF body.has_message THEN body.message ELSE <<>>

\* data.get('message', '').strip()
chat_message(body) == strip(IF body.has_message THEN body.message ELSE <<>>)

chat_sent_new_message_only(hist, message) == <<Message("user", message)>>

\* chat_history.append({"role": "user", ...}): the transcript the call is given
chat_sent(hist, message) == Append(hist, Message("user", message))

\* chat_history.append({"role": "assistant", ...}): the transcript stored
chat_stored(sent, content) == Append(sent, Message("assistant", content))

WebChatResults ==
    {web_chat_completion(o, je) : o \in ChatOutcomes, je \in JsonDecodeErrors}

\* POST /api/chat
api_chat(s, body, r) ==
    /\ pc = "serving"
    /\ LET message == chat_message(body)
           hist == SessionGet(session[s])
           sent == chat_sent(hist, message)
       IN
       IF ~Truthy(message)
       THEN /\ Responded("chat", s, body, 400, TRUE, FALSE, <<>>)
            /\ UNCHANGED <<session, urls, okTurns>>
       ELSE /\ StoredTurns < MaxTurns
            /\ urls' = urls \cup {vllm_client}
            /\ IF r.exc # "none"
               THEN \* the handler raises: Flask answers 500, the session is not saved
                    /\ Responded("chat", s, body, 500, FALSE, TRUE, sent)
                    /\ UNCHANGED <<session, okTurns>>
               ELSE IF r.ret.success
               THEN /\ session' = [session EXCEPT ![s] =
                          [@ EXCEPT !.has_history = TRUE,
                                    !.chat_history = chat_stored(sent, r.ret.content)]]
                    /\ Responded("chat", s, body, 200, FALSE, TRUE, sent)
                    /\ okTurns' = [okTurns EXCEPT ![s] = Append(@, <<message, r.ret.content>>)]
               ELSE \* the appended user message lives in a list the session
                    \* was never told to save
                    /\ Responded("chat", s, body, 500, TRUE, TRUE, sent)
                    /\ UNCHANGED <<session, okTurns>>
    /\ UNCHANGED <<prog, pc, callerVars, VLLM_BASE_URL, vllm_client, cliVars>>

cleared_keeps_history(sess) == [sess EXCEPT !.has_history = TRUE]

\* session['chat_history'] = []
cleared(sess) == [sess EXCEPT !.has_history = TRUE, !.chat_history = <<>>]

\* POST /api/clear
api_clear(s) ==
    /\ pc = "serving"
    /\ session' = [session EXCEPT ![s] = cleared(session[s])]
    /\ Responded("clear", s, NoBody, 200, FALSE, FALSE, <<>>)
    /\ okTurns' = [okTurns EXCEPT ![s] = <<>>]
    /\ UNCHANGED <<prog, pc, urls, callerVars, VLLM_BASE_URL, vllm_client, cliVars>>

WebNext ==
    \/ \E env \in EnvValues, k \in KubectlOutcomes : WebImport(env, k)
    \/ \E s \in Sessions : index(s)
    \/ \E s \in Sessions, r \in HealthResults : api_health(s, r)
    \/ \E s \in Sessions, r \in WebModelsResults : api_models(s, r)
    \/ \E s \in Sessions, body \in ChatBodies, r \in WebChatResults : api_chat(s, body, r)
    \/ \E s \in Sessions : api_clear(s)

(***************************************************************************)
(* The command-line front end.                                             *)
(***************************************************************************)
MenuLines == { <<"1">>, <<"2", " ">>, <<"3">>, <<"4">>, <<"x">> }

QUIT == <<"q", "u", "i", "t">>
EXIT == <<"e", "x", "i", "t">>
CLEAR == <<"c", "l", "e", "a", "r">>

ChatLines ==
    { <<"h", "i">>, <<" ">>, CLEAR, <<"C", "l", "e", "a", "r", " ">>,
      QUIT, <<" ", "E", "X", "I", "T">> }

NUM_TEST_PROMPTS == 5

\* the URLs VLLMClient() can resolve to
CliResolved ==
    {VLLMClient_init(None, env, k).url : env \in EnvValues, k \in KubectlOutcomes}

CliHealthResults == {health_check(o) : o \in HealthOutcomes \cup {Interrupted}}

CliModelsResults ==
    {cli_get_models(o, je) : o \in ModelsOutcomes \cup {Interrupted}, je \in JsonDecodeErrors}

\* a reply may also be the empty string
CliChatResults ==
    {cli_completion(o, je) :
        o \in ChatOutcomes \cup {Response(200, "ok", <<>>), Interrupted},
        je \in JsonDecodeErrors}

CliCompletionResults ==
    {cli_completion(o, je) :
        o \in CompletionOutcomes \cup {Response(200, "ok", <<>>), Interrupted},
        je \in JsonDecodeErrors}

main_except_interrupt_only(e) ==
    IF e = "KeyboardInterrupt" THEN [pc |-> "done", farewell |-> TRUE, ended |-> TRUE]
    ELSE [pc |-> "crashed", farewell |-> FALSE, ended |-> TRUE]

\* the handlers of main's loop: except KeyboardInterrupt: farewell, break;
\* except Exception: print, go on
main_except(e) ==
    IF e = "KeyboardInterrupt" THEN [pc |-> "done", farewell |-> TRUE, ended |-> TRUE]
    ELSE IF IsException(e) THEN [pc |-> "menu", farewell |-> FALSE, ended |-> FALSE]
    ELSE [pc |-> "crashed", farewell |-> FALSE, ended |-> TRUE]

\* an exception e leaves the running menu action and reaches main's handlers
RaisedToMain(e) ==
    LET h == main_except(e) IN
    /\ pc' = h.pc
    /\ client' = None
    /\ cli_last' = [loop |-> "menu", kind |-> cli_last.kind, line |-> cli_last.line,
                    exc |-> e, farewell |-> h.farewell, ended |-> h.ended,
                    called |-> FALSE, sent |-> <<>>]

\* the menu action returns
ReturnedToMain ==
    /\ pc' = "menu"
    /\ client' = None
    /\ UNCHANGED cli_last

\* one pass of main's loop up to the call of the chosen action
MenuInput(line, u) ==
    /\ pc = "menu"
    /\ LET choice == strip(line) IN
       /\ pc' = CASE choice = <<"1">> -> "demo_health"
                  [] choice = <<"2">> -> "chat"
                  [] choice = <<"3">> -> "perf"
                  [] choice = <<"4">> -> "done"
                  [] OTHER -> "menu"
       /\ client' = IF choice \in { <<"1">>, <<"2">>, <<"3">> } THEN u ELSE None
       /\ perf_i' = IF choice = <<"3">> THEN 1 ELSE 0
       /\ cli_last' = [loop |-> "menu", kind |-> "line", line |-> line, exc |-> "none",
                       farewell |-> (choice = <<"4">>), ended |-> (choice = <<"4">>),
                       called |-> FALSE, sent |-> <<>>]
    /\ messages' = <<>>
    /\ inputs' = <<>>
    /\ calls' = 0
    /\ UNCHANGED <<prog, urls, callerVars, webVars>>

\* input() raises KeyboardInterrupt or EOFError
MenuInputRaises(e) ==
    /\ pc = "menu"
    /\ LET h == main_except(e) IN
       /\ pc' = h.pc
       /\ cli_last' = [loop |-> "menu", kind |-> e, line |-> <<>>, exc |-> e,
                       farewell |-> h.farewell, ended |-> h.ended,
                       called |-> FALSE, sent |-> <<>>]
    /\ messages' = <<>>
    /\ inputs' = <<>>
    /\ calls' = 0
    /\ UNCHANGED <<prog, urls, callerVars, webVars, client, perf_i>>

\* demo_basic_usage, call by call
DemoHealth(r) ==
    /\ pc = "demo_health"
    /\ urls' = urls \cup {client}
    /\ IF r.exc # "none" THEN RaisedToMain(r.exc)
       ELSE IF r.ret THEN pc' = "demo_models" /\ UNCHANGED <<client, cli_last>>
       ELSE ReturnedToMain
    /\ UNCHANGED <<prog, callerVars, webVars, messages, inputs, calls, perf_i>>

DemoModels(r) ==
    /\ pc = "demo_models"
    /\ urls' = urls \cup {client}
    /\ IF r.exc # "none" THEN RaisedToMain(r.exc)
       ELSE pc' = "demo_chat" /\ UNCHANGED <<client, cli_last>>
    /\ UNCHANGED <<prog, callerVars, webVars, messages, inputs, calls, perf_i>>

DemoChat(r) ==
    /\ pc = "demo_chat"
    /\ urls' = urls \cup {client}
    /\ IF r.exc # "none" THEN RaisedToMain(r.exc)
       ELSE pc' = "demo_completion" /\ UNCHANGED <<client, cli_last>>
    /\ UNCHANGED <<prog, callerVars, webVars, messages, inputs, calls, perf_i>>

DemoCompletion(r) ==
    /\ pc = "demo_completion"
    /\ urls' = urls \cup {client}
    /\ IF r.exc # "none" THEN RaisedToMain(r.exc) ELSE ReturnedToMain
    /\ UNCHANGED <<prog, callerVars, webVars, messages, inputs, calls, perf_i>>

\* performance_test, prompt by prompt
PerfPrompt(r) ==
    /\ pc = "perf"
    /\ urls' = urls \cup {client}
    /\ IF r.exc # "none" THEN RaisedToMain(r.exc) /\ perf_i' = 0
       ELSE IF perf_i < NUM_TEST_PROMPTS
            THEN perf_i' = perf_i + 1 /\ UNCHANGED <<pc, client, cli_last>>
            ELSE ReturnedToMain /\ perf_i' = 0
    /\ UNCHANGED <<prog, callerVars, webVars, messages, inputs, calls>>

is_quit_case_sensitive(user_input) == user_input \in {QUIT, EXIT}

\* user_input.lower() in ['quit', 'exit']
is_quit(user_input) == lower(user_input) \in {QUIT, EXIT}

\* user_input.lower() == 'clear'
is_clear(user_input) == lower(user_input) = CLEAR

\* the handlers of the interactive loop: except KeyboardInterrupt: farewell,
\* break; except Exception: print, go on; anything else leaves the function
chat_except(e) ==
    IF e = "KeyboardInterrupt" THEN [raised |-> "none", farewell |-> TRUE, ended |-> TRUE]
    ELSE IF IsException(e) THEN [raised |-> "none", farewell |-> FALSE, ended |-> FALSE]
    ELSE [raised |-> e, farewell |-> FALSE, ended |-> TRUE]

\* where the program is after a pass of the interactive loop
AfterChatPass(ended, raised) ==
    IF ~ended THEN "chat"
    ELSE IF raised = "none" THEN "menu"
    ELSE main_except(raised).pc

\* one pass of the interactive loop that reads a line
ChatInput(line, r) ==
    /\ pc = "chat"
    /\ Len(inputs) < MaxInputs
    /\ inputs' = Append(inputs, line)
    /\ LET user_input == strip(line)
           sent == Append(messages, Message("user", user_input))
           pass(kind, exc, farewell, ended, called) ==
               [loop |-> "chat", kind |-> kind, line |-> line, exc |-> exc,
                farewell |-> farewell, ended |-> ended, called |-> called,
                sent |-> IF called THEN sent ELSE <<>>]
       IN
       IF is_quit(user_input)
       THEN /\ cli_last' = pass("line", "none", TRUE, TRUE, FALSE)
            /\ pc' = "menu"
            /\ client' = None
            /\ UNCHANGED <<messages, calls, urls>>
       ELSE IF is_clear(user_input)
       THEN /\ messages' = <<>>
            /\ cli_last' = pass("line", "none", FALSE, FALSE, FALSE)
            /\ UNCHANGED <<pc, client, calls, urls>>
       ELSE IF ~Truthy(user_input)
       THEN /\ cli_last' = pass("line", "none", FALSE, FALSE, FALSE)
            /\ UNCHANGED <<pc, client, messages, calls, urls>>
       ELSE /\ calls' = calls + 1
            /\ urls' = urls \cup {client}
            /\ IF r.exc # "none"
               THEN LET h == chat_except(r.exc) IN
                    /\ messages' = sent
                    /\ cli_last' = pass("line", r.exc, h.farewell, h.ended, TRUE)
                    /\ pc' = AfterChatPass(h.ended, h.raised)
                    /\ client' = IF h.ended THEN None ELSE client
               ELSE /\ messages' = IF Truthy(r.ret)
                                   THEN Append(sent, Message("assistant", r.ret))
                                   ELSE sent
                    /\ cli_last' = pass("line", "none", FALSE, FALSE, TRUE)
                    /\ UNCHANGED <<pc, client>>
    /\ UNCHANGED <<prog, callerVars, webVars, perf_i>>

\* one pass of the interactive loop in which input() raises
ChatInputRaises(e) ==
    /\ pc = "chat"
    /\ LET h == chat_except(e) IN
       /\ cli_last' = [loop |-> "chat", kind |-> e, line |-> <<>>, exc |-> e,
                       farewell |-> h.farewell, ended |-> h.ended,
                       called |-> FALSE, sent |-> <<>>]
       /\ pc' = AfterChatPass(h.ended, h.raised)
       /\ client' = IF h.ended THEN None ELSE client
    /\ UNCHANGED <<prog, urls, callerVars, webVars, messages, inputs, calls, perf_i>>

InputErrors == {"KeyboardInterrupt", "EOFError"}

CliNext ==
    \/ \E line \in MenuLines, u \in CliResolved : MenuInput(line, u)
    \/ \E e \in InputErrors : MenuInputRaises(e)
    \/ \E r \in CliHealthResults : DemoHealth(r)
    \/ \E r \in CliModelsResults : DemoModels(r)
    \/ \E r \in CliChatResults : DemoChat(r)
    \/ \E r \in CliCompletionResults : DemoCompletion(r)
    \/ \E r \in CliChatResults : PerfPrompt(r)
    \/ \E line \in ChatLines, r \in CliChatResults : ChatInput(line, r)
    \/ \E e \in InputErrors : ChatInputRaises(e)

Next == WebNext \/ CallerNext \/ CliNext

Spec == Init /\ [][Next]_vars

(***************************************************************************)
(* What the claims speak of, stated without the operators of the model.    *)
(***************************************************************************)
IsBlank(s) == \A i \in 1..Len(s) : s[i] \in {" ", "\n"}

\* s without its leading and trailing whitespace
Trimmed(s) ==
    IF IsBlank(s) THEN <<>>
    ELSE LET solid == {i \in 1..Len(s) : s[i] \notin {" ", "\n"}}
             first == CHOOSE i \in solid : \A j \in solid : i <= j
             final == CHOOSE i \in solid : \A j \in solid : j <= i
         IN SubSeq(s, first, final)

Front(s) == SubSeq(s, 1, Len(s) - 1)

\* the URL the fixed order override, variable, discovery, fallback gives
ExpectedUrl(override, env, k) ==
    IF override # None THEN override
    ELSE IF env # None /\ env # <<>> THEN <<"http://">> \o env \o <<":8080">>
    ELSE IF k.exc = "none" /\ k.returncode = 0 /\ ~IsBlank(k.stdout)
         THEN <<"http://">> \o Trimmed(k.stdout) \o <<":8080">>
         ELSE <<"http://", "localhost", ":8080">>

\* C1: endpoint resolution returns the URL of the first applicable source in
\* the order override, VLLM_IP, discovery (return code 0 and an IP left after
\* trimming), localhost; it never raises; kubectl runs at most once, and not
\* at all when the override or the variable applies.
C1_ResolutionOrder ==
    res.fn # "none" =>
        /\ res.out.exc = "none"
        /\ res.out.url = ExpectedUrl(res.override, res.env, res.k)
        /\ res.out.runs <= 1
        /\ (res.override # None \/ (res.env # None /\ res.env # <<>>)) => res.out.runs = 0

\* discovery decided the URL although VLLM_IP was set to the empty string
C1_Witness ==
    /\ res.fn = "get_vllm_base_url"
    /\ res.env = <<>>
    /\ res.k.exc = "none" /\ res.k.returncode = 0 /\ res.k.stdout = <<"1", "\n">>
    /\ res.out.url = <<"http://", "1", ":8080">>
    /\ res.out.runs = 1

\* a downstream outcome other than a 2xx answer carrying the expected keys
BadOutcome(o) == o.exc # "none" \/ o.status < 200 \/ o.status >= 300 \/ o.body # "ok"

\* C2: whatever the downstream outcome, chat_completion and completion of both
\* clients raise nothing, and on a transport error, a non-2xx status or a
\* malformed body return the failure value (CLI: None; web: success false).
C2_CompletionNeverRaises ==
    lastOp.op \in {"chat_completion", "completion"} =>
        /\ lastOp.exc = "none"
        /\ BadOutcome(lastOp.o) =>
              IF lastOp.client = "VLLMClient"
              THEN lastOp.ret = None
              ELSE ~lastOp.ret.success /\ lastOp.ret.error # ""

\* C3: health_check of both clients raises nothing, returns true exactly when
\* the request was answered with the service's healthy status 200, and
\* returns false on every transport error.
C3_HealthCheck ==
    lastOp.op = "health_check" =>
        /\ lastOp.exc = "none"
        /\ lastOp.ret = (lastOp.o.exc = "none" /\ lastOp.o.status = 200)
        /\ lastOp.o.exc \in {"ConnectionError", "Timeout", "InvalidURL"} => lastOp.ret = FALSE

\* an unreachable endpoint: the liveness request timed out, the answer is false
C3_Witness ==
    /\ lastOp.op = "health_check"
    /\ lastOp.client = "VLLMWebClient"
    /\ lastOp.o.exc = "Timeout"
    /\ lastOp.ret = FALSE

RECURSIVE TranscriptOf(_)
\* the transcript of a sequence of (message, reply) pairs
TranscriptOf(turns) ==
    IF turns = <<>> THEN <<>>
    ELSE << [role |-> "user", content |-> turns[1][1]],
            [role |-> "assistant", content |-> turns[1][2]] >> \o TranscriptOf(Tail(turns))

\* the successful chats of the last request's session before that request
EarlierTurns ==
    IF last.route = "chat" /\ last.status = 200
    THEN Front(okTurns[last.sid])
    ELSE okTurns[last.sid]

\* C4: a chat request with a non-empty message calls the completion with the
\* stored transcript followed by the new user message; after n successful
\* chats that transcript has length 2n+1: the n earlier messages and replies
\* in order, then the new message.
C4_FullTranscriptSent ==
    (last.route = "chat" /\ last.body.has_message /\ ~IsBlank(last.body.message)) =>
        /\ last.called
        /\ last.sent = TranscriptOf(EarlierTurns)
                         \o << [role |-> "user", content |-> Trimmed(last.body.message)] >>
        /\ Len(last.sent) = 2 * Len(EarlierTurns) + 1

\* the second chat of a session: its call carries three messages
C4_Witness ==
    /\ last.route = "chat"
    /\ last.called
    /\ Len(last.sent) = 3
    /\ last.sent[1].content # last.sent[3].content

\* C5: a chat request whose message is empty, whitespace only or absent is
\* answered 400 with an error field, calls nothing downstream and leaves the
\* session transcript as it was.
C5_EmptyMessageRejected ==
    (last.route = "chat" /\ (~last.body.has_message \/ IsBlank(last.body.message))) =>
        /\ last.status = 400
        /\ last.error
        /\ ~last.called
        /\ SessionGet(session[last.sid]) = last.before

\* a whitespace-only message rejected on a session that holds a transcript
C5_Witness ==
    /\ last.route = "chat"
    /\ last.body.has_message /\ last.body.message = <<" ">>
    /\ last.status = 400
    /\ last.before # <<>>

IsQuitLine(l) == lower(Trimmed(l)) \in {QUIT, EXIT}
IsClearLine(l) == lower(Trimmed(l)) = CLEAR

\* C6: after a clear the transcript is empty, whatever it held (web: POST
\* /api/clear; CLI: the input 'clear'), and the completion call that follows
\* carries the one new user message only.
C6_ClearEmpties ==
    /\ [](/\ last.route = "clear" => SessionGet(session[last.sid]) = <<>>
          /\ (cli_last.loop = "chat" /\ cli_last.kind = "line" /\ IsClearLine(cli_last.line))
                => messages = <<>>)
    /\ [][/\ (last.route = "clear" /\ last'.route = "chat" /\ last'.sid = last.sid
                /\ last'.called) => Len(last'.sent) = 1
          /\ (cli_last.loop = "chat" /\ cli_last.kind = "line" /\ IsClearLine(cli_last.line)
                /\ cli_last'.called) => Len(cli_last'.sent) = 1]_vars

\* a transcript that held messages was cleared
C6_Witness ==
    /\ last.route = "clear"
    /\ last.before # <<>>
    /\ SessionGet(session[last.sid]) = <<>>

\* C7: a session's transcript changes only by a successful chat on that
\* session, which appends to it, or by a clear on that session.
C7_TranscriptFrame ==
    [][\A s \in Sessions :
          SessionGet(session'[s]) # SessionGet(session[s]) =>
             /\ last'.sid = s
             /\ \/ /\ last'.route = "chat" /\ last'.status = 200
                   /\ Len(SessionGet(session'[s])) = Len(SessionGet(session[s])) + 2
                   /\ SubSeq(SessionGet(session'[s]), 1, Len(SessionGet(session[s])))
                        = SessionGet(session[s])
                \/ /\ last'.route = "clear"
                   /\ SessionGet(session'[s]) = <<>>]_vars

CausesCall(l) == ~IsBlank(l) /\ ~IsClearLine(l) /\ ~IsQuitLine(l)

RECURSIVE NumCalls(_)
\* the lines among ls that cause a completion call
NumCalls(ls) ==
    IF ls = <<>> THEN 0
    ELSE (IF CausesCall(Head(ls)) THEN 1 ELSE 0) + NumCalls(Tail(ls))

\* C8: the interactive loop stops at the first line that is quit or exit
\* (trimmed, in any case) without raising, and the completion calls it issued
\* are as many as the earlier lines that are not blank and not clear.
C8_InteractiveLoopCalls ==
    /\ pc = "chat" =>
          /\ calls = NumCalls(inputs)
          /\ \A i \in 1..Len(inputs) : ~IsQuitLine(inputs[i])
    /\ (cli_last.loop = "chat" /\ cli_last.kind = "line" /\ IsQuitLine(cli_last.line)) =>
          /\ cli_last.ended /\ cli_last.exc = "none" /\ ~cli_last.called
          /\ pc = "menu"
          /\ inputs # <<>> /\ inputs[Len(inputs)] = cli_last.line
          /\ \A i \in 1..(Len(inputs) - 1) : ~IsQuitLine(inputs[i])
          /\ calls = NumCalls(Front(inputs))

\* hello, clear, quit: one call, an empty transcript, a clean stop
C8_Witness ==
    /\ inputs = << <<"h", "i">>, CLEAR, QUIT >>
    /\ calls = 1
    /\ messages = <<>>
    /\ cli_last.ended /\ cli_last.exc = "none"
    /\ pc = "menu"

\* C9: an error raised in a pass of the menu loop or the interactive loop is
\* caught and the loop goes on; a loop ends only on quit/exit (menu: choice 4)
\* or on an interrupt, with a farewell, never with an unhandled exception.
C9_LoopsSurviveErrors ==
    prog = "cli" =>
        /\ pc # "crashed"
        /\ cli_last.exc \notin {"none", "KeyboardInterrupt"} =>
              /\ ~cli_last.ended
              /\ pc = (IF cli_last.loop = "chat" THEN "chat" ELSE "menu")
        /\ cli_last.ended =>
              /\ cli_last.farewell
              /\ \/ cli_last.exc = "KeyboardInterrupt"
                 \/ /\ cli_last.kind = "line" /\ cli_last.exc = "none"
                    /\ IF cli_last.loop = "menu"
                       THEN Trimmed(cli_last.line) = <<"4">>
                       ELSE IsQuitLine(cli_last.line)
        /\ pc = "done" => (cli_last.loop = "menu" /\ cli_last.ended)

\* a KeyError out of a menu action was caught and the menu goes on
C9_Witness ==
    /\ cli_last.loop = "menu"
    /\ cli_last.exc = "KeyError"
    /\ pc = "menu"

\* C10: all downstream requests of one run go to one base URL.
C10_OneEndpointPerRun == Cardinality(urls) <= 1

\* a transcript of (user, assistant) pairs in order
IsPairs(t) ==
    /\ Len(t) % 2 = 0
    /\ \A i \in 1..Len(t) : t[i].role = (IF i % 2 = 1 THEN "user" ELSE "assistant")

\* every stored transcript is pairs, a chat that is not answered 200 stores
\* nothing, and every call carries stored pairs and then one user message
C11_StoredPairs ==
    /\ \A s \in Sessions : IsPairs(SessionGet(session[s]))
    /\ (last.route = "chat" /\ last.status # 200) =>
          SessionGet(session[last.sid]) = last.before
    /\ (last.route = "chat" /\ last.called) =>
          /\ IsPairs(Front(last.sent))
          /\ last.sent[Len(last.sent)].role = "user"

\* C11: every stored transcript is k (user, assistant) pairs in order; a chat
\* whose downstream completion fails is answered 500 with {success: false,
\* error} and stores nothing, so the failed turn's user message is not in the
\* transcript the next chat sends.
C11_FailedChatAnswered ==
    /\ C11_StoredPairs
    /\ (last.route = "chat" /\ last.called /\ last.status # 200) =>
          /\ last.status = 500
          /\ last.error

====
